---------------------------- MODULE Spec2Model ----------------------------
(***************************************************************************)
(* Model of business_contract_validation.py: the text normalizer, the      *)
(* clause extractor, the clause comparator, the summary function with its  *)
(* entity highlighter, the PDF text reader and the Submit handler that     *)
(* composes them.                                                          *)
(*                                                                         *)
(* A Python str is modelled as the sequence of its Unicode code points, so *)
(* that the regular expressions, str.strip() and the codecs can be         *)
(* followed character by character with the character classes Python      *)
(* gives them.  A comment beside a sequence of code points tells the text. *)
(***************************************************************************)
EXTENDS Naturals, Sequences, FiniteSets, TLC

VARIABLES
    pc,                      \* position in the Submit handler
    uploaded_template_file,  \* the uploaded template (its page text) or NoFile
    uploaded_contract_file,  \* the uploaded contract (its page text) or NoFile
    template_text,           \* line 120
    contract_text,           \* line 121
    template_clauses,        \* line 124
    contract_clauses,        \* line 125
    matches,                 \* line 49, the matches of the last extraction
    extractor_input,         \* the argument of each extraction call, per document
    template_clause_dict,    \* line 55
    contract_clause_dict,    \* line 56
    deviations,              \* line 137
    entities,                \* line 146
    text,                    \* line 80, the local of extract_detailed_summary
    summarizer_calls,        \* number of invocations of the external summarizer
    contract_summary,        \* line 150
    calls,                   \* the functions called so far, in order
    errors,                  \* the errors collaborators have raised, in order
    raised,                  \* the collaborator whose error ended the handler
    page                     \* what has been rendered, in order

vars == << pc, uploaded_template_file, uploaded_contract_file, template_text,
           contract_text, template_clauses, contract_clauses, matches,
           extractor_input, template_clause_dict, contract_clause_dict,
           deviations, entities, text, summarizer_calls, contract_summary,
           calls, errors, raised, page >>

-----------------------------------------------------------------------------
(* Bounds of the model *)

MaxTextLen == 4
MaxLines == 2
MaxClauses == 3
MaxWsLen == 3
MaxTailLen == 2
PadBase == 46
PadSpan == 5

-----------------------------------------------------------------------------
(* Characters and strings *)

\* Code points the source's patterns and templates name.
LF == 10            \* "\n" in [^\n], line 48
Period == 46        \* "." in \. , line 48
Space == 32         \* the replacement " ", line 32
Backslash == 92     \* the escape character of a replacement template, line 96

\* c lies in one of the closed ranges of R.
InRanges(c, R) == \E r \in R : r[1] <= c /\ c <= r[2]

\* The code points Python's \s matches in a str pattern, which are also the
\* ones str.strip() removes: \t \n \v \f \r, U+001C-U+001F, space, U+0085,
\* U+00A0, U+1680, U+2000-U+200A, U+2028, U+2029, U+202F, U+205F, U+3000.
Whitespace ==
    (9..13) \cup (28..32) \cup {133, 160, 5760} \cup (8192..8202)
    \cup {8232, 8233, 8239, 8287, 12288}

\* The ranges of the code points \d matches in a str pattern: the decimal
\* digits of every script, ten to a block, the first of a block being zero.
DigitRanges ==
    { <<48, 57>>, <<1632, 1641>>, <<1776, 1785>>, <<1984, 1993>>,
      <<2406, 2415>>, <<2534, 2543>>, <<2662, 2671>>, <<2790, 2799>>,
      <<2918, 2927>>, <<3046, 3055>>, <<3174, 3183>>, <<3302, 3311>>,
      <<3430, 3439>>, <<3558, 3567>>, <<3664, 3673>>, <<3792, 3801>>,
      <<3872, 3881>>, <<4160, 4169>>, <<4240, 4249>>, <<6112, 6121>>,
      <<6160, 6169>>, <<6470, 6479>>, <<6608, 6617>>, <<6784, 6793>>,
      <<6800, 6809>>, <<6992, 7001>>, <<7088, 7097>>, <<7232, 7241>>,
      <<7248, 7257>>, <<42528, 42537>>, <<43216, 43225>>, <<43264, 43273>>,
      <<43472, 43481>>, <<43504, 43513>>, <<43600, 43609>>, <<44016, 44025>>,
      <<65296, 65305>>, <<66720, 66729>>, <<68912, 68921>>, <<69734, 69743>>,
      <<69872, 69881>>, <<69942, 69951>>, <<70096, 70105>>, <<70384, 70393>>,
      <<70736, 70745>>, <<70864, 70873>>, <<71248, 71257>>, <<71360, 71369>>,
      <<71472, 71481>>, <<71904, 71913>>, <<72016, 72025>>, <<72784, 72793>>,
      <<73040, 73049>>, <<73120, 73129>>, <<92768, 92777>>, <<92864, 92873>>,
      <<93008, 93017>>, <<120782, 120831>>, <<123200, 123209>>,
      <<123632, 123641>>, <<125264, 125273>>, <<130032, 130041>> }

Digits == UNION {r[1]..r[2] : r \in DigitRanges}

\* The ranges of the code points \w matches in a str pattern: the
\* alphanumerics of every script and the underscore.
WordRanges ==
    { <<48, 57>>, <<65, 90>>, <<95, 95>>, <<97, 122>>, <<170, 170>>,
      <<178, 179>>, <<181, 181>>, <<185, 186>>, <<188, 190>>, <<192, 214>>,
      <<216, 246>>, <<248, 705>>, <<710, 721>>, <<736, 740>>, <<748, 748>>,
      <<750, 750>>, <<880, 884>>, <<886, 887>>, <<890, 893>>, <<895, 895>>,
      <<902, 902>>, <<904, 906>>, <<908, 908>>, <<910, 929>>, <<931, 1013>>,
      <<1015, 1153>>, <<1162, 1327>>, <<1329, 1366>>, <<1369, 1369>>,
      <<1376, 1416>>, <<1488, 1514>>, <<1519, 1522>>, <<1568, 1610>>,
      <<1632, 1641>>, <<1646, 1647>>, <<1649, 1747>>, <<1749, 1749>>,
      <<1765, 1766>>, <<1774, 1788>>, <<1791, 1791>>, <<1808, 1808>>,
      <<1810, 1839>>, <<1869, 1957>>, <<1969, 1969>>, <<1984, 2026>>,
      <<2036, 2037>>, <<2042, 2042>>, <<2048, 2069>>, <<2074, 2074>>,
      <<2084, 2084>>, <<2088, 2088>>, <<2112, 2136>>, <<2144, 2154>>,
      <<2160, 2183>>, <<2185, 2190>>, <<2208, 2249>>, <<2308, 2361>>,
      <<2365, 2365>>, <<2384, 2384>>, <<2392, 2401>>, <<2406, 2415>>,
      <<2417, 2432>>, <<2437, 2444>>, <<2447, 2448>>, <<2451, 2472>>,
      <<2474, 2480>>, <<2482, 2482>>, <<2486, 2489>>, <<2493, 2493>>,
      <<2510, 2510>>, <<2524, 2525>>, <<2527, 2529>>, <<2534, 2545>>,
      <<2548, 2553>>, <<2556, 2556>>, <<2565, 2570>>, <<2575, 2576>>,
      <<2579, 2600>>, <<2602, 2608>>, <<2610, 2611>>, <<2613, 2614>>,
      <<2616, 2617>>, <<2649, 2652>>, <<2654, 2654>>, <<2662, 2671>>,
      <<2674, 2676>>, <<2693, 2701>>, <<2703, 2705>>, <<2707, 2728>>,
      <<2730, 2736>>, <<2738, 2739>>, <<2741, 2745>>, <<2749, 2749>>,
      <<2768, 2768>>, <<2784, 2785>>, <<2790, 2799>>, <<2809, 2809>>,
      <<2821, 2828>>, <<2831, 2832>>, <<2835, 2856>>, <<2858, 2864>>,
      <<2866, 2867>>, <<2869, 2873>>, <<2877, 2877>>, <<2908, 2909>>,
      <<2911, 2913>>, <<2918, 2927>>, <<2929, 2935>>, <<2947, 2947>>,
      <<2949, 2954>>, <<2958, 2960>>, <<2962, 2965>>, <<2969, 2970>>,
      <<2972, 2972>>, <<2974, 2975>>, <<2979, 2980>>, <<2984, 2986>>,
      <<2990, 3001>>, <<3024, 3024>>, <<3046, 3058>>, <<3077, 3084>>,
      <<3086, 3088>>, <<3090, 3112>>, <<3114, 3129>>, <<3133, 3133>>,
      <<3160, 3162>>, <<3165, 3165>>, <<3168, 3169>>, <<3174, 3183>>,
      <<3192, 3198>>, <<3200, 3200>>, <<3205, 3212>>, <<3214, 3216>>,
      <<3218, 3240>>, <<3242, 3251>>, <<3253, 3257>>, <<3261, 3261>>,
      <<3293, 3294>>, <<3296, 3297>>, <<3302, 3311>>, <<3313, 3314>>,
      <<3332, 3340>>, <<3342, 3344>>, <<3346, 3386>>, <<3389, 3389>>,
      <<3406, 3406>>, <<3412, 3414>>, <<3416, 3425>>, <<3430, 3448>>,
      <<3450, 3455>>, <<3461, 3478>>, <<3482, 3505>>, <<3507, 3515>>,
      <<3517, 3517>>, <<3520, 3526>>, <<3558, 3567>>, <<3585, 3632>>,
      <<3634, 3635>>, <<3648, 3654>>, <<3664, 3673>>, <<3713, 3714>>,
      <<3716, 3716>>, <<3718, 3722>>, <<3724, 3747>>, <<3749, 3749>>,
      <<3751, 3760>>, <<3762, 3763>>, <<3773, 3773>>, <<3776, 3780>>,
      <<3782, 3782>>, <<3792, 3801>>, <<3804, 3807>>, <<3840, 3840>>,
      <<3872, 3891>>, <<3904, 3911>>, <<3913, 3948>>, <<3976, 3980>>,
      <<4096, 4138>>, <<4159, 4169>>, <<4176, 4181>>, <<4186, 4189>>,
      <<4193, 4193>>, <<4197, 4198>>, <<4206, 4208>>, <<4213, 4225>>,
      <<4238, 4238>>, <<4240, 4249>>, <<4256, 4293>>, <<4295, 4295>>,
      <<4301, 4301>>, <<4304, 4346>>, <<4348, 4680>>, <<4682, 4685>>,
      <<4688, 4694>>, <<4696, 4696>>, <<4698, 4701>>, <<4704, 4744>>,
      <<4746, 4749>>, <<4752, 4784>>, <<4786, 4789>>, <<4792, 4798>>,
      <<4800, 4800>>, <<4802, 4805>>, <<4808, 4822>>, <<4824, 4880>>,
      <<4882, 4885>>, <<4888, 4954>>, <<4969, 4988>>, <<4992, 5007>>,
      <<5024, 5109>>, <<5112, 5117>>, <<5121, 5740>>, <<5743, 5759>>,
      <<5761, 5786>>, <<5792, 5866>>, <<5870, 5880>>, <<5888, 5905>>,
      <<5919, 5937>>, <<5952, 5969>>, <<5984, 5996>>, <<5998, 6000>>,
      <<6016, 6067>>, <<6103, 6103>>, <<6108, 6108>>, <<6112, 6121>>,
      <<6128, 6137>>, <<6160, 6169>>, <<6176, 6264>>, <<6272, 6276>>,
      <<6279, 6312>>, <<6314, 6314>>, <<6320, 6389>>, <<6400, 6430>>,
      <<6470, 6509>>, <<6512, 6516>>, <<6528, 6571>>, <<6576, 6601>>,
      <<6608, 6618>>, <<6656, 6678>>, <<6688, 6740>>, <<6784, 6793>>,
      <<6800, 6809>>, <<6823, 6823>>, <<6917, 6963>>, <<6981, 6988>>,
      <<6992, 7001>>, <<7043, 7072>>, <<7086, 7141>>, <<7168, 7203>>,
      <<7232, 7241>>, <<7245, 7293>>, <<7296, 7304>>, <<7312, 7354>>,
      <<7357, 7359>>, <<7401, 7404>>, <<7406, 7411>>, <<7413, 7414>>,
      <<7418, 7418>>, <<7424, 7615>>, <<7680, 7957>>, <<7960, 7965>>,
      <<7968, 8005>>, <<8008, 8013>>, <<8016, 8023>>, <<8025, 8025>>,
      <<8027, 8027>>, <<8029, 8029>>, <<8031, 8061>>, <<8064, 8116>>,
      <<8118, 8124>>, <<8126, 8126>>, <<8130, 8132>>, <<8134, 8140>>,
      <<8144, 8147>>, <<8150, 8155>>, <<8160, 8172>>, <<8178, 8180>>,
      <<8182, 8188>>, <<8304, 8305>>, <<8308, 8313>>, <<8319, 8329>>,
      <<8336, 8348>>, <<8450, 8450>>, <<8455, 8455>>, <<8458, 8467>>,
      <<8469, 8469>>, <<8473, 8477>>, <<8484, 8484>>, <<8486, 8486>>,
      <<8488, 8488>>, <<8490, 8493>>, <<8495, 8505>>, <<8508, 8511>>,
      <<8517, 8521>>, <<8526, 8526>>, <<8528, 8585>>, <<9312, 9371>>,
      <<9450, 9471>>, <<10102, 10131>>, <<11264, 11492>>, <<11499, 11502>>,
      <<11506, 11507>>, <<11517, 11517>>, <<11520, 11557>>, <<11559, 11559>>,
      <<11565, 11565>>, <<11568, 11623>>, <<11631, 11631>>, <<11648, 11670>>,
      <<11680, 11686>>, <<11688, 11694>>, <<11696, 11702>>, <<11704, 11710>>,
      <<11712, 11718>>, <<11720, 11726>>, <<11728, 11734>>, <<11736, 11742>>,
      <<11823, 11823>>, <<12293, 12295>>, <<12321, 12329>>, <<12337, 12341>>,
      <<12344, 12348>>, <<12353, 12438>>, <<12445, 12447>>, <<12449, 12538>>,
      <<12540, 12543>>, <<12549, 12591>>, <<12593, 12686>>, <<12690, 12693>>,
      <<12704, 12735>>, <<12784, 12799>>, <<12832, 12841>>, <<12872, 12879>>,
      <<12881, 12895>>, <<12928, 12937>>, <<12977, 12991>>, <<13312, 19903>>,
      <<19968, 42124>>, <<42192, 42237>>, <<42240, 42508>>, <<42512, 42539>>,
      <<42560, 42606>>, <<42623, 42653>>, <<42656, 42735>>, <<42775, 42783>>,
      <<42786, 42888>>, <<42891, 42954>>, <<42960, 42961>>, <<42963, 42963>>,
      <<42965, 42969>>, <<42994, 43009>>, <<43011, 43013>>, <<43015, 43018>>,
      <<43020, 43042>>, <<43056, 43061>>, <<43072, 43123>>, <<43138, 43187>>,
      <<43216, 43225>>, <<43250, 43255>>, <<43259, 43259>>, <<43261, 43262>>,
      <<43264, 43301>>, <<43312, 43334>>, <<43360, 43388>>, <<43396, 43442>>,
      <<43471, 43481>>, <<43488, 43492>>, <<43494, 43518>>, <<43520, 43560>>,
      <<43584, 43586>>, <<43588, 43595>>, <<43600, 43609>>, <<43616, 43638>>,
      <<43642, 43642>>, <<43646, 43695>>, <<43697, 43697>>, <<43701, 43702>>,
      <<43705, 43709>>, <<43712, 43712>>, <<43714, 43714>>, <<43739, 43741>>,
      <<43744, 43754>>, <<43762, 43764>>, <<43777, 43782>>, <<43785, 43790>>,
      <<43793, 43798>>, <<43808, 43814>>, <<43816, 43822>>, <<43824, 43866>>,
      <<43868, 43881>>, <<43888, 44002>>, <<44016, 44025>>, <<44032, 55203>>,
      <<55216, 55238>>, <<55243, 55291>>, <<63744, 64109>>, <<64112, 64217>>,
      <<64256, 64262>>, <<64275, 64279>>, <<64285, 64285>>, <<64287, 64296>>,
      <<64298, 64310>>, <<64312, 64316>>, <<64318, 64318>>, <<64320, 64321>>,
      <<64323, 64324>>, <<64326, 64433>>, <<64467, 64829>>, <<64848, 64911>>,
      <<64914, 64967>>, <<65008, 65019>>, <<65136, 65140>>, <<65142, 65276>>,
      <<65296, 65305>>, <<65313, 65338>>, <<65345, 65370>>, <<65382, 65470>>,
      <<65474, 65479>>, <<65482, 65487>>, <<65490, 65495>>, <<65498, 65500>>,
      <<65536, 65547>>, <<65549, 65574>>, <<65576, 65594>>, <<65596, 65597>>,
      <<65599, 65613>>, <<65616, 65629>>, <<65664, 65786>>, <<65799, 65843>>,
      <<65856, 65912>>, <<65930, 65931>>, <<66176, 66204>>, <<66208, 66256>>,
      <<66273, 66299>>, <<66304, 66339>>, <<66349, 66378>>, <<66384, 66421>>,
      <<66432, 66461>>, <<66464, 66499>>, <<66504, 66511>>, <<66513, 66517>>,
      <<66560, 66717>>, <<66720, 66729>>, <<66736, 66771>>, <<66776, 66811>>,
      <<66816, 66855>>, <<66864, 66915>>, <<66928, 66938>>, <<66940, 66954>>,
      <<66956, 66962>>, <<66964, 66965>>, <<66967, 66977>>, <<66979, 66993>>,
      <<66995, 67001>>, <<67003, 67004>>, <<67072, 67382>>, <<67392, 67413>>,
      <<67424, 67431>>, <<67456, 67461>>, <<67463, 67504>>, <<67506, 67514>>,
      <<67584, 67589>>, <<67592, 67592>>, <<67594, 67637>>, <<67639, 67640>>,
      <<67644, 67644>>, <<67647, 67669>>, <<67672, 67702>>, <<67705, 67742>>,
      <<67751, 67759>>, <<67808, 67826>>, <<67828, 67829>>, <<67835, 67867>>,
      <<67872, 67897>>, <<67968, 68023>>, <<68028, 68047>>, <<68050, 68096>>,
      <<68112, 68115>>, <<68117, 68119>>, <<68121, 68149>>, <<68160, 68168>>,
      <<68192, 68222>>, <<68224, 68255>>, <<68288, 68295>>, <<68297, 68324>>,
      <<68331, 68335>>, <<68352, 68405>>, <<68416, 68437>>, <<68440, 68466>>,
      <<68472, 68497>>, <<68521, 68527>>, <<68608, 68680>>, <<68736, 68786>>,
      <<68800, 68850>>, <<68858, 68899>>, <<68912, 68921>>, <<69216, 69246>>,
      <<69248, 69289>>, <<69296, 69297>>, <<69376, 69415>>, <<69424, 69445>>,
      <<69457, 69460>>, <<69488, 69505>>, <<69552, 69579>>, <<69600, 69622>>,
      <<69635, 69687>>, <<69714, 69743>>, <<69745, 69746>>, <<69749, 69749>>,
      <<69763, 69807>>, <<69840, 69864>>, <<69872, 69881>>, <<69891, 69926>>,
      <<69942, 69951>>, <<69956, 69956>>, <<69959, 69959>>, <<69968, 70002>>,
      <<70006, 70006>>, <<70019, 70066>>, <<70081, 70084>>, <<70096, 70106>>,
      <<70108, 70108>>, <<70113, 70132>>, <<70144, 70161>>, <<70163, 70187>>,
      <<70272, 70278>>, <<70280, 70280>>, <<70282, 70285>>, <<70287, 70301>>,
      <<70303, 70312>>, <<70320, 70366>>, <<70384, 70393>>, <<70405, 70412>>,
      <<70415, 70416>>, <<70419, 70440>>, <<70442, 70448>>, <<70450, 70451>>,
      <<70453, 70457>>, <<70461, 70461>>, <<70480, 70480>>, <<70493, 70497>>,
      <<70656, 70708>>, <<70727, 70730>>, <<70736, 70745>>, <<70751, 70753>>,
      <<70784, 70831>>, <<70852, 70853>>, <<70855, 70855>>, <<70864, 70873>>,
      <<71040, 71086>>, <<71128, 71131>>, <<71168, 71215>>, <<71236, 71236>>,
      <<71248, 71257>>, <<71296, 71338>>, <<71352, 71352>>, <<71360, 71369>>,
      <<71424, 71450>>, <<71472, 71483>>, <<71488, 71494>>, <<71680, 71723>>,
      <<71840, 71922>>, <<71935, 71942>>, <<71945, 71945>>, <<71948, 71955>>,
      <<71957, 71958>>, <<71960, 71983>>, <<71999, 71999>>, <<72001, 72001>>,
      <<72016, 72025>>, <<72096, 72103>>, <<72106, 72144>>, <<72161, 72161>>,
      <<72163, 72163>>, <<72192, 72192>>, <<72203, 72242>>, <<72250, 72250>>,
      <<72272, 72272>>, <<72284, 72329>>, <<72349, 72349>>, <<72368, 72440>>,
      <<72704, 72712>>, <<72714, 72750>>, <<72768, 72768>>, <<72784, 72812>>,
      <<72818, 72847>>, <<72960, 72966>>, <<72968, 72969>>, <<72971, 73008>>,
      <<73030, 73030>>, <<73040, 73049>>, <<73056, 73061>>, <<73063, 73064>>,
      <<73066, 73097>>, <<73112, 73112>>, <<73120, 73129>>, <<73440, 73458>>,
      <<73648, 73648>>, <<73664, 73684>>, <<73728, 74649>>, <<74752, 74862>>,
      <<74880, 75075>>, <<77712, 77808>>, <<77824, 78894>>, <<82944, 83526>>,
      <<92160, 92728>>, <<92736, 92766>>, <<92768, 92777>>, <<92784, 92862>>,
      <<92864, 92873>>, <<92880, 92909>>, <<92928, 92975>>, <<92992, 92995>>,
      <<93008, 93017>>, <<93019, 93025>>, <<93027, 93047>>, <<93053, 93071>>,
      <<93760, 93846>>, <<93952, 94026>>, <<94032, 94032>>, <<94099, 94111>>,
      <<94176, 94177>>, <<94179, 94179>>, <<94208, 100343>>,
      <<100352, 101589>>, <<101632, 101640>>, <<110576, 110579>>,
      <<110581, 110587>>, <<110589, 110590>>, <<110592, 110882>>,
      <<110928, 110930>>, <<110948, 110951>>, <<110960, 111355>>,
      <<113664, 113770>>, <<113776, 113788>>, <<113792, 113800>>,
      <<113808, 113817>>, <<119520, 119539>>, <<119648, 119672>>,
      <<119808, 119892>>, <<119894, 119964>>, <<119966, 119967>>,
      <<119970, 119970>>, <<119973, 119974>>, <<119977, 119980>>,
      <<119982, 119993>>, <<119995, 119995>>, <<119997, 120003>>,
      <<120005, 120069>>, <<120071, 120074>>, <<120077, 120084>>,
      <<120086, 120092>>, <<120094, 120121>>, <<120123, 120126>>,
      <<120128, 120132>>, <<120134, 120134>>, <<120138, 120144>>,
      <<120146, 120485>>, <<120488, 120512>>, <<120514, 120538>>,
      <<120540, 120570>>, <<120572, 120596>>, <<120598, 120628>>,
      <<120630, 120654>>, <<120656, 120686>>, <<120688, 120712>>,
      <<120714, 120744>>, <<120746, 120770>>, <<120772, 120779>>,
      <<120782, 120831>>, <<122624, 122654>>, <<123136, 123180>>,
      <<123191, 123197>>, <<123200, 123209>>, <<123214, 123214>>,
      <<123536, 123565>>, <<123584, 123627>>, <<123632, 123641>>,
      <<124896, 124902>>, <<124904, 124907>>, <<124909, 124910>>,
      <<124912, 124926>>, <<124928, 125124>>, <<125127, 125135>>,
      <<125184, 125251>>, <<125259, 125259>>, <<125264, 125273>>,
      <<126065, 126123>>, <<126125, 126127>>, <<126129, 126132>>,
      <<126209, 126253>>, <<126255, 126269>>, <<126464, 126467>>,
      <<126469, 126495>>, <<126497, 126498>>, <<126500, 126500>>,
      <<126503, 126503>>, <<126505, 126514>>, <<126516, 126519>>,
      <<126521, 126521>>, <<126523, 126523>>, <<126530, 126530>>,
      <<126535, 126535>>, <<126537, 126537>>, <<126539, 126539>>,
      <<126541, 126543>>, <<126545, 126546>>, <<126548, 126548>>,
      <<126551, 126551>>, <<126553, 126553>>, <<126555, 126555>>,
      <<126557, 126557>>, <<126559, 126559>>, <<126561, 126562>>,
      <<126564, 126564>>, <<126567, 126570>>, <<126572, 126578>>,
      <<126580, 126583>>, <<126585, 126588>>, <<126590, 126590>>,
      <<126592, 126601>>, <<126603, 126619>>, <<126625, 126627>>,
      <<126629, 126633>>, <<126635, 126651>>, <<127232, 127244>>,
      <<130032, 130041>>, <<131072, 173791>>, <<173824, 177976>>,
      <<177984, 178205>>, <<178208, 183969>>, <<183984, 191456>>,
      <<194560, 195101>>, <<196608, 201546>> }

AsciiLetters == (65..90) \cup (97..122)

OctDigits == 48..55

AsciiDigits == 48..57

IsSpace(c) == c \in Whitespace

IsDigit(c) == c \in Digits

IsWordChar(c) ==
    IF c < 128 THEN c \in AsciiLetters \cup AsciiDigits \cup {95}
    ELSE InRanges(c, WordRanges)

\* All sequences over S of length at most n.
SeqsUpTo(S, n) == UNION {[1..k -> S] : k \in 0..n}

\* A result of a step that can raise: the value, or the failure.
Ok(v) == [ok |-> TRUE, value |-> v]

Raises == [ok |-> FALSE]

\* head followed by the rest, unless the rest has raised.
Then(head, rest) == IF rest.ok THEN Ok(head \o rest.value) ELSE rest

-----------------------------------------------------------------------------
(* preprocess_text: re.sub(r"\s+", " ", text) *)

\* Index after the maximal run of whitespace that starts at p.
RECURSIVE SpaceRunEnd(_, _)
SpaceRunEnd(s, p) ==
    IF p <= Len(s) /\ IsSpace(s[p]) THEN SpaceRunEnd(s, p + 1) ELSE p

RECURSIVE SubSpaces(_, _)
SubSpaces(s, p) ==
    IF p > Len(s) THEN <<>>
    ELSE IF IsSpace(s[p]) THEN <<Space>> \o SubSpaces(s, SpaceRunEnd(s, p))
    ELSE <<s[p]>> \o SubSpaces(s, p + 1)

\* A variant that substitutes every whitespace character on its own (r"\s").
preprocess_text_PerChar(s) ==
    [i \in 1..Len(s) |-> IF IsSpace(s[i]) THEN Space ELSE s[i]]

preprocess_text(s) == SubSpaces(s, 1)

-----------------------------------------------------------------------------
\* extract_clauses_and_titles, whose pattern is  (\d+(\.\d+)*)\.\s+([^\n]+)
\* Positions are 1-based; an "end" is the index after the last character.

\* str.strip(): leading and trailing whitespace removed.
RECURSIVE LStrip(_)
LStrip(s) == IF s /= <<>> /\ IsSpace(s[1]) THEN LStrip(Tail(s)) ELSE s

RECURSIVE RStrip(_)
RStrip(s) ==
    IF s /= <<>> /\ IsSpace(s[Len(s)]) THEN RStrip(SubSeq(s, 1, Len(s) - 1))
    ELSE s

strip(s) == RStrip(LStrip(s))

\* \d+ from p, greedy: the index after the maximal run of digits at p.
RECURSIVE DigitRunEnd(_, _)
DigitRunEnd(s, p) ==
    IF p <= Len(s) /\ IsDigit(s[p]) THEN DigitRunEnd(s, p + 1) ELSE p

\* (\.\d+)* from p, greedy: as many ".digits" groups as there are.
RECURSIVE GroupsEnd(_, _)
GroupsEnd(s, p) ==
    IF p + 1 <= Len(s) /\ s[p] = Period /\ IsDigit(s[p + 1])
    THEN GroupsEnd(s, DigitRunEnd(s, p + 1))
    ELSE p

\* [^\n]+ from p, greedy: the index after the maximal run of non-newlines.
RECURSIVE LineEnd(_, _)
LineEnd(s, p) ==
    IF p <= Len(s) /\ s[p] /= LF THEN LineEnd(s, p + 1) ELSE p

NoMatch == [ok |-> FALSE]

\* The match of the pattern that starts at p, as the backtracking matcher
\* finds it.  \d+ and (\.\d+)* take all they can: giving a digit or a group
\* back leaves a digit, or ".digit", where the pattern needs "." and then
\* whitespace, so no shorter choice can succeed.  \s+ takes the whole run
\* of whitespace and gives characters back, one at a time, until the
\* character after it is not a newline; [^\n]+ then runs to the line's end.
MatchAt(s, p) ==
    IF ~(p <= Len(s) /\ IsDigit(s[p])) THEN NoMatch
    ELSE LET ie == GroupsEnd(s, DigitRunEnd(s, p))    \* end of group 1
         IN  IF ~(ie <= Len(s) /\ s[ie] = Period) THEN NoMatch
             ELSE LET we == SpaceRunEnd(s, ie + 1)
                      starts == {t \in (ie + 2)..we :
                                    t <= Len(s) /\ s[t] /= LF}
                  IN  IF starts = {} THEN NoMatch
                      ELSE LET ts == CHOOSE t \in starts :
                                        \A u \in starts : u <= t
                           IN  [ok |-> TRUE, start |-> p, id_end |-> ie,
                                title_start |-> ts, end |-> LineEnd(s, ts)]

\* A variant of the scan that resumes one character after a match's start.
RECURSIVE Scan_Overlapping(_, _)
Scan_Overlapping(s, p) ==
    IF p > Len(s) THEN <<>>
    ELSE LET m == MatchAt(s, p)
         IN  IF m.ok THEN <<m>> \o Scan_Overlapping(s, p + 1)
             ELSE Scan_Overlapping(s, p + 1)

\* The scan of findall/finditer: leftmost match first, the next search
\* starting where the match ended.
RECURSIVE Scan(_, _)
Scan(s, p) ==
    IF p > Len(s) THEN <<>>
    ELSE LET m == MatchAt(s, p)
         IN  IF m.ok THEN <<m>> \o Scan(s, m.end) ELSE Scan(s, p + 1)

\* clause_pattern.findall(text), each match with its span.
findall(s) == Scan(s, 1)

\* match[0] and match[2] of a match.
Group1(s, m) == SubSeq(s, m.start, m.id_end - 1)

Group3(s, m) == SubSeq(s, m.title_start, m.end - 1)

\* [(match[0], match[2].strip()) for match in matches]
ClausesOf(s, ms) ==
    [i \in 1..Len(ms) |-> <<Group1(s, ms[i]), strip(Group3(s, ms[i]))>>]

extract_clauses_and_titles(s) == ClausesOf(s, findall(s))

-----------------------------------------------------------------------------
(* compare_clauses.  A Python dict is modelled as the sequence of its      *)
(* <<key, value>> items in iteration order, which is the order in which    *)
(* the keys were first inserted.                                           *)

\* "Missing in Contract", line 61.
MissingInContract == <<77, 105, 115, 115, 105, 110, 103, 32, 105, 110, 32, 67, 111, 110, 116, 114, 97, 99, 116>>

\* "Different in Contract: ", the head of the f-string of line 67.
DifferentInContract == <<68, 105, 102, 102, 101, 114, 101, 110, 116, 32, 105, 110, 32, 67, 111, 110, 116, 114, 97, 99, 116, 58, 32>>

\* "Extra in Contract", line 73.
ExtraInContract == <<69, 120, 116, 114, 97, 32, 105, 110, 32, 67, 111, 110, 116, 114, 97, 99, 116>>

DictHas(d, k) == \E i \in 1..Len(d) : d[i][1] = k

DictGet(d, k) == d[CHOOSE i \in 1..Len(d) : d[i][1] = k][2]

\* A variant of d[k] = v that keeps the value a key already has.
DictSet_KeepFirst(d, k, v) ==
    IF DictHas(d, k) THEN d ELSE Append(d, <<k, v>>)

\* A variant of d[k] = v that moves an updated key to the end.
DictSet_MoveToEnd(d, k, v) ==
    Append(SelectSeq(d, LAMBDA it : it[1] /= k), <<k, v>>)

\* d[k] = v: a new key goes last, a known key keeps its place and takes v.
DictSet(d, k, v) ==
    IF DictHas(d, k)
    THEN [i \in 1..Len(d) |-> IF d[i][1] = k THEN <<k, v>> ELSE d[i]]
    ELSE Append(d, <<k, v>>)

\* {clause: title for clause, title in clauses}, filled left to right.
RECURSIVE DictFill(_, _)
DictFill(d, clauses) ==
    IF clauses = <<>> THEN d
    ELSE DictFill(DictSet(d, clauses[1][1], clauses[1][2]), Tail(clauses))

ClauseDict(clauses) == DictFill(<<>>, clauses)

\* A variant of the first loop's body without the "Missing" branch.
Pass1Item_NoMissing(it, cdict) ==
    IF DictHas(cdict, it[1]) /\ DictGet(cdict, it[1]) /= it[2]
    THEN << <<it[1], it[2], DifferentInContract \o DictGet(cdict, it[1])>> >>
    ELSE <<>>

\* Lines 60-69: what the first loop appends for one template item.
Pass1Item(it, cdict) ==
    IF ~DictHas(cdict, it[1])
    THEN << <<it[1], it[2], MissingInContract>> >>
    ELSE IF DictGet(cdict, it[1]) /= it[2]
    THEN << <<it[1], it[2], DifferentInContract \o DictGet(cdict, it[1])>> >>
    ELSE <<>>

\* Lines 59-69: the loop over template_clause_dict.items().
RECURSIVE Pass1(_, _)
Pass1(tdict, cdict) ==
    IF tdict = <<>> THEN <<>>
    ELSE Pass1Item(tdict[1], cdict) \o Pass1(Tail(tdict), cdict)

\* Lines 71-73: the loop over contract_clause_dict.items(); tdict is whole.
RECURSIVE Pass2(_, _)
Pass2(cdict, tdict) ==
    IF cdict = <<>> THEN <<>>
    ELSE (IF ~DictHas(tdict, cdict[1][1])
          THEN << <<cdict[1][1], cdict[1][2], ExtraInContract>> >>
          ELSE <<>>) \o Pass2(Tail(cdict), tdict)

\* A variant of the loops without the contract's loop.
Deviations_Pass1Only(tdict, cdict) == Pass1(tdict, cdict)

\* Lines 57-75: deviations, given the two dicts.
Deviations(tdict, cdict) == Pass1(tdict, cdict) \o Pass2(cdict, tdict)

compare_clauses(tc, cc) == Deviations(ClauseDict(tc), ClauseDict(cc))

-----------------------------------------------------------------------------
(* extract_detailed_summary and its collaborators *)

\* len(text) < 50, line 82.
MinSummaryLen == 50

\* "Input text is too short for summarization.", line 83.
TooShortMessage == <<73, 110, 112, 117, 116, 32, 116, 101, 120, 116, 32, 105, 115, 32, 116, 111, 111, 32, 115, 104, 111, 114, 116, 32, 102, 111, 114, 32, 115, 117, 109, 109, 97, 114, 105, 122, 97, 116, 105, 111, 110, 46>>

\* "Summary generation failed: ", the head of the f-string of line 89.
SummaryFailedHead == <<83, 117, 109, 109, 97, 114, 121, 32, 103, 101, 110, 101, 114, 97, 116, 105, 111, 110, 32, 102, 97, 105, 108, 101, 100, 58, 32>>

\* '<span class="highlight">' and '</span>', the f-string of line 96.
SpanOpen == <<60, 115, 112, 97, 110, 32, 99, 108, 97, 115, 115, 61, 34, 104, 105, 103, 104, 108, 105, 103, 104, 116, 34, 62>>

SpanClose == <<60, 47, 115, 112, 97, 110, 62>>

\* "Text Summary:\n" and "\n\n", the f-string of line 100.
TextSummaryHead == <<84, 101, 120, 116, 32, 83, 117, 109, 109, 97, 114, 121, 58, 10>>

TextSummaryTail == <<10, 10>>

\* What the external summarizer can answer: a summary or an error with its
\* message.  The summaries: "Acme pays Acme-Corp.", "A span of U.S. law" and
\* "see a\g<0>b".
SummaryTexts ==
    { <<65, 99, 109, 101, 32, 112, 97, 121, 115, 32, 65, 99, 109, 101, 45, 67, 111, 114, 112, 46>>,
      <<65, 32, 115, 112, 97, 110, 32, 111, 102, 32, 85, 46, 83, 46, 32, 108, 97, 119>>,
      <<115, 101, 101, 32, 97, 92, 103, 60, 48, 62, 98>> }

\* str(e) of the summarizer's error: "index out of range".
SummarizerErrors == { <<105, 110, 100, 101, 120, 32, 111, 117, 116, 32, 111, 102, 32, 114, 97, 110, 103, 101>> }

\* What the NER service can answer: entities with a word and a group.
Entity(w, g) == [word |-> w, entity_group |-> g]

W_Acme == <<65, 99, 109, 101>>

W_AcmeCorp == <<65, 99, 109, 101, 45, 67, 111, 114, 112>>

W_US == <<85, 46, 83, 46>>

W_span == <<115, 112, 97, 110>>

W_BadEscape == <<92, 113>>

W_GroupZero == <<92, 103, 60, 48, 62>>

G_ORG == <<79, 82, 71>>

G_MISC == <<77, 73, 83, 67>>

G_LOC == <<76, 79, 67>>

EntityLists ==
    { <<>>,
      << Entity(W_Acme, G_ORG) >>,
      << Entity(W_Acme, G_ORG), Entity(W_Acme, G_MISC) >>,
      << Entity(W_US, G_LOC), Entity(W_AcmeCorp, G_ORG) >>,
      << Entity(W_Acme, G_ORG), Entity(W_span, G_MISC) >>,
      << Entity(W_GroupZero, G_MISC) >>,
      << Entity(W_Acme, G_ORG), Entity(W_BadEscape, G_MISC) >> }

\* The least of the positions S, or 0 when there is none.
Least(S) == IF S = {} THEN 0 ELSE CHOOSE q \in S : \A r \in S : q <= r

\* The index of the first c in t at or after p, or 0.
FindFrom(t, c, p) == Least({q \in p..Len(t) : t[q] = c})

\* c is the digit zero of some script.
IsZeroDigit(c) ==
    \E r \in DigitRanges : r[1] <= c /\ c <= r[2] /\ (c - r[1]) % 10 = 0

\* The whitespace int() skips around a number: that of str.strip() but for
\* U+001C-U+001F.
IntSpace == Whitespace \ (28..31)

\* The name of \g<name> is one int() reads as 0, the only group a pattern
\* without groups has: whitespace around, one sign, zeros of any script,
\* single underscores between them.  Every other name raises.
GroupZero(name) ==
    LET kept == {i \in 1..Len(name) : name[i] \notin IntSpace}
        first == CHOOSE i \in kept : \A j \in kept : i <= j
        last == CHOOSE i \in kept : \A j \in kept : j <= i
        signed == name[first] \in {43, 45}
        d == SubSeq(name, IF signed THEN first + 1 ELSE first, last)
    IN  /\ kept /= {}
        /\ d /= <<>>
        /\ \A i \in 1..Len(d) : IsZeroDigit(d[i]) \/ d[i] = 95
        /\ IsZeroDigit(d[1])
        /\ IsZeroDigit(d[Len(d)])
        /\ \A i \in 1..(Len(d) - 1) : ~(d[i] = 95 /\ d[i + 1] = 95)

\* The escapes of a replacement template that stand for one character:
\* \a \b \f \n \r \t \v and \\.
Escapes ==
    (97 :> 7) @@ (98 :> 8) @@ (102 :> 12) @@ (110 :> 10) @@ (114 :> 13)
    @@ (116 :> 9) @@ (118 :> 11) @@ (92 :> 92)

\* The replacement re.sub makes of the template t, read from p, for a match
\* of the text m, or the error the template raises.  The pattern has no
\* group, so \g<0> is the match and every other group reference raises;
\* \0, \0o, \0oo and three octal digits up to \377 are a character; a
\* backslash before another ASCII letter or at the end raises; a backslash
\* before any other character stays, with that character.
RECURSIVE ExpandTemplate(_, _, _)
ExpandTemplate(t, p, m) ==
    LET q == FindFrom(t, Backslash, p)
    IN  IF q = 0 THEN Ok(SubSeq(t, p, Len(t)))
        ELSE IF q = Len(t) THEN Raises
        ELSE LET plain == SubSeq(t, p, q - 1)
                 c == t[q + 1]
                 at(k) == IF q + k <= Len(t) THEN t[q + k] ELSE 0
             IN  IF c = 103                                      \* \g
                 THEN LET close == FindFrom(t, 62, q + 3)
                      IN  IF /\ at(2) = 60
                             /\ close > 0
                             /\ GroupZero(SubSeq(t, q + 3, close - 1))
                          THEN Then(plain \o m, ExpandTemplate(t, close + 1, m))
                          ELSE Raises
                 ELSE IF c = 48                                  \* \0
                 THEN IF at(2) \in OctDigits /\ at(3) \in OctDigits
                      THEN Then(plain
                                \o <<((at(2) - 48) * 8 + (at(3) - 48)) % 256>>,
                                ExpandTemplate(t, q + 4, m))
                      ELSE IF at(2) \in OctDigits
                      THEN Then(plain \o <<at(2) - 48>>,
                                ExpandTemplate(t, q + 3, m))
                      ELSE Then(plain \o <<0>>, ExpandTemplate(t, q + 2, m))
                 ELSE IF c \in AsciiDigits                       \* \1 - \9
                 THEN IF /\ c \in OctDigits
                         /\ at(2) \in OctDigits
                         /\ at(3) \in OctDigits
                         /\ (c - 48) * 64 + (at(2) - 48) * 8 + (at(3) - 48)
                               <= 255
                      THEN Then(plain \o <<(c - 48) * 64 + (at(2) - 48) * 8
                                            + (at(3) - 48)>>,
                                ExpandTemplate(t, q + 4, m))
                      ELSE Raises
                 ELSE IF c \in DOMAIN Escapes
                 THEN Then(plain \o <<Escapes[c]>>, ExpandTemplate(t, q + 2, m))
                 ELSE IF c \in AsciiLetters THEN Raises
                 ELSE Then(plain \o <<Backslash, c>>,
                           ExpandTemplate(t, q + 2, m))

\* \b at the position before s[p]: of the characters around it, one is a
\* word character and the other is not, the outside of s being none.
AtBoundary(s, p) ==
    (p > 1 /\ IsWordChar(s[p - 1])) /= (p <= Len(s) /\ IsWordChar(s[p]))

\* The pattern \b<escaped w>\b matches at p: w itself, between boundaries.
MatchesWordAt(s, w, p) ==
    /\ p + Len(w) <= Len(s) + 1
    /\ SubSeq(s, p, p + Len(w) - 1) = w
    /\ \A q \in {p, p + Len(w)} : AtBoundary(s, q)

\* The start of the leftmost match at or after p, or 0.
NextMatch(s, w, p) == Least({q \in p..(Len(s) + 1) : MatchesWordAt(s, w, q)})

\* re.sub from p, the leftmost match at or after p being at q (0: none):
\* the text up to the match, repl for the match, and the search again from
\* the match's end; after an empty match the next character is copied and
\* the search goes on behind it.
RECURSIVE SubWordAt(_, _, _, _, _)
SubWordAt(s, w, repl, p, q) ==
    IF q = 0 THEN SubSeq(s, p, Len(s))
    ELSE IF w /= <<>>
    THEN SubSeq(s, p, q - 1) \o repl
         \o SubWordAt(s, w, repl, q + Len(w), NextMatch(s, w, q + Len(w)))
    ELSE IF q <= Len(s)
    THEN SubSeq(s, p, q - 1) \o repl \o <<s[q]>>
         \o SubWordAt(s, w, repl, q + 1, NextMatch(s, w, q + 1))
    ELSE SubSeq(s, p, q - 1) \o repl

\* re.sub(r'\b<escaped w>\b', repl, s), read from p.
SubWord(s, w, repl, p) == SubWordAt(s, w, repl, p, NextMatch(s, w, p))

\* re.sub with the compiled template repl: its error, or the substitution.
SubCompiled(summary, w, repl) ==
    IF repl.ok THEN Ok(SubWord(summary, w, repl.value, 1)) ELSE Raises

\* Lines 93-98 for one entity: the template is compiled first, and raises
\* whether or not the word occurs; then every whole-word occurrence of the
\* word is replaced by the template's expansion.
HighlightOne(summary, w) ==
    SubCompiled(summary, w, ExpandTemplate(SpanOpen \o w \o SpanClose, 1, w))

\* Lines 92-98: the entities in the order given, each on the result of the
\* one before.
RECURSIVE HighlightAll(_, _)
RECURSIVE HighlightRest(_, _)
HighlightAll(summary, ents) ==
    IF ents = <<>> THEN Ok(summary)
    ELSE HighlightRest(HighlightOne(summary, ents[1].word), Tail(ents))

\* The loop after one entity gave h: the entities left, unless h raised.
HighlightRest(h, ents) ==
    IF h.ok THEN HighlightAll(h.value, ents) ELSE Raises

\* A variant of line 82 with the limit one too low.
TooShort_OneLess(t) == Len(t) < MinSummaryLen - 1

\* Line 82: whether the normalized text is too short to summarize.
TooShort(t) == Len(t) < MinSummaryLen

\* A variant of lines 88-89 that lets the summarizer's error leave the function.
SummarizerFailure_Propagates(e) == [raises |-> TRUE, by |-> "summarizer"]

\* Lines 88-89: the summarizer's error e is caught and a message returned.
SummarizerFailure(e) ==
    [raises |-> FALSE, value |-> SummaryFailedHead \o e]

\* extract_detailed_summary(t, ents) when the summarizer, if it is called,
\* answers `answer`: [ok |-> TRUE, summary |-> ...] or
\* [ok |-> FALSE, error |-> ...].  The result tells the text after line 80,
\* whether the summarizer was called, the errors raised on the way, and
\* either the returned string or the collaborator whose error leaves the
\* function.
extract_detailed_summary(t, ents, answer) ==
    LET norm == preprocess_text(t)
        Highlighted(h) ==
            IF ~h.ok
            THEN [text |-> norm, called |-> TRUE, errors |-> <<"re.sub">>,
                  raises |-> TRUE, by |-> "re.sub"]
            ELSE [text |-> norm, called |-> TRUE, errors |-> <<>>,
                  raises |-> FALSE,
                  value |-> TextSummaryHead \o h.value \o TextSummaryTail]
    IN  IF TooShort(norm)
        THEN [text |-> norm, called |-> FALSE, errors |-> <<>>,
              raises |-> FALSE, value |-> TooShortMessage]
        ELSE IF ~answer.ok
        THEN [text |-> norm, called |-> TRUE, errors |-> <<"summarizer">>]
             @@ SummarizerFailure(answer.error)
        ELSE Highlighted(HighlightAll(answer.summary, ents))

SummarizerAnswers ==
    {[ok |-> TRUE, summary |-> s] : s \in SummaryTexts}
    \cup {[ok |-> FALSE, error |-> e] : e \in SummarizerErrors}

-----------------------------------------------------------------------------
(* extract_text_from_pdf, lines 36-43 *)

\* An uploaded file: a PDF with the text fitz gives for each of its pages,
\* a file fitz cannot open, or no upload at all.
Pdf(pages) == [kind |-> "pdf", pages |-> pages]

CorruptFile == [kind |-> "corrupt"]

NoFile == [kind |-> "none"]

\* page_text.encode("latin1", "ignore"): one byte for each character up to
\* U+00FF, the others dropped.
EncodeLatin1Ignore(s) == SelectSeq(s, LAMBDA c : c <= 255)

\* The length of the UTF-8 sequence the byte b leads, or 0 if it leads none.
Utf8Length(b) ==
    IF b < 128 THEN 1
    ELSE IF b \in 194..223 THEN 2
    ELSE IF b \in 224..239 THEN 3
    ELSE IF b \in 240..244 THEN 4
    ELSE 0

\* The bytes that may follow the lead byte b: no overlong form, no
\* surrogate, nothing beyond U+10FFFF.
Utf8Second(b) ==
    IF b = 224 THEN 160..191
    ELSE IF b = 237 THEN 128..159
    ELSE IF b = 240 THEN 144..191
    ELSE IF b = 244 THEN 128..143
    ELSE 128..191

\* The index of the first byte of b at or after p that is not ASCII, or 0.
NextNonAscii(b, p) == Least({q \in p..Len(b) : b[q] >= 128})

\* bytes.decode("utf-8") from p: the characters, or UnicodeDecodeError.
\* ASCII bytes are themselves; any other byte must lead a well-formed
\* sequence, which is one character.
RECURSIVE DecodeUtf8(_, _)
DecodeUtf8(b, p) ==
    LET q == NextNonAscii(b, p)
    IN  IF q = 0 THEN Ok(SubSeq(b, p, Len(b)))
        ELSE LET n == Utf8Length(b[q])
             IN  IF n = 0 \/ q + n - 1 > Len(b) THEN Raises
                 ELSE IF \/ b[q + 1] \notin Utf8Second(b[q])
                         \/ \E k \in 2..(n - 1) : b[q + k] \notin 128..191
                 THEN Raises
                 ELSE LET lead == b[q] - (IF n = 2 THEN 192
                                          ELSE IF n = 3 THEN 224 ELSE 240)
                          F[k \in 0..(n - 1)] ==
                              IF k = 0 THEN lead
                              ELSE F[k - 1] * 64 + (b[q + k] - 128)
                      IN  Then(SubSeq(b, p, q - 1) \o <<F[n - 1]>>,
                               DecodeUtf8(b, q + n))

\* Lines 39-42: each page's text through latin1 and back through UTF-8,
\* appended to the text so far.
RECURSIVE ReadPages(_)
ReadPages(pages) ==
    IF pages = <<>> THEN Ok(<<>>)
    ELSE LET first == DecodeUtf8(EncodeLatin1Ignore(pages[1]), 1)
         IN  IF first.ok THEN Then(first.value, ReadPages(Tail(pages)))
             ELSE Raises

\* Lines 36-43: fitz.open raises on a file it cannot open; the text of the
\* pages otherwise, or the error their decoding raises.
extract_text_from_pdf(file) ==
    IF file.kind = "corrupt" THEN Raises ELSE ReadPages(file.pages)

-----------------------------------------------------------------------------
(* The Submit handler, lines 116-161 *)

\* The strings the handler renders.
TemplateClausesHeader == <<69, 120, 116, 114, 97, 99, 116, 101, 100, 32, 67, 108, 97, 117, 115, 101, 115, 32, 97, 110, 100, 32, 84, 105, 116, 108, 101, 115, 32, 102, 114, 111, 109, 32, 84, 101, 109, 112, 108, 97, 116, 101>>

ContractClausesHeader == <<69, 120, 116, 114, 97, 99, 116, 101, 100, 32, 67, 108, 97, 117, 115, 101, 115, 32, 97, 110, 100, 32, 84, 105, 116, 108, 101, 115, 32, 102, 114, 111, 109, 32, 67, 111, 110, 116, 114, 97, 99, 116>>

DeviationsHeader == <<68, 101, 118, 105, 97, 116, 105, 111, 110, 115>>

NoDeviationsMessage == <<78, 111, 32, 100, 101, 118, 105, 97, 116, 105, 111, 110, 115, 32, 100, 101, 116, 101, 99, 116, 101, 100, 46>>

SummaryHeader == <<68, 101, 116, 97, 105, 108, 101, 100, 32, 67, 111, 110, 116, 114, 97, 99, 116, 32, 83, 117, 109, 109, 97, 114, 121>>

EntitiesHeader == <<69, 110, 116, 105, 116, 105, 101, 115, 32, 68, 101, 116, 101, 99, 116, 101, 100>>

UploadBothMessage == <<80, 108, 101, 97, 115, 101, 32, 117, 112, 108, 111, 97, 100, 32, 98, 111, 116, 104, 32, 116, 101, 109, 112, 108, 97, 116, 101, 32, 97, 110, 100, 32, 99, 111, 110, 116, 114, 97, 99, 116, 32, 80, 68, 70, 32, 102, 105, 108, 101, 115, 46>>

\* A variant of lines 124-125 that normalizes the text it hands over.
ExtractorArgument_Normalized(raw) == preprocess_text(raw)

\* Lines 124-125: the argument the handler hands to the extractor.
ExtractorArgument(raw) == raw

Call(fn, doc) == <<fn, doc>>

\* Lines 116-117 and 160-161.
Submit ==
    /\ pc = "idle"
    /\ \/ /\ uploaded_template_file.kind /= "none"
          /\ uploaded_contract_file.kind /= "none"
          /\ pc' = "read_template"
          /\ page' = page
       \/ /\ \/ uploaded_template_file.kind = "none"
             \/ uploaded_contract_file.kind = "none"
          /\ pc' = "done"
          /\ page' = Append(page, UploadBothMessage)
    /\ UNCHANGED << errors, uploaded_template_file, uploaded_contract_file,
                    template_text, contract_text, template_clauses,
                    contract_clauses, matches, extractor_input,
                    template_clause_dict, contract_clause_dict, deviations,
                    entities, text, summarizer_calls, contract_summary,
                    calls, raised >>

\* Line 120.
ReadTemplate ==
    /\ pc = "read_template"
    /\ calls' = Append(calls, Call("extract_text_from_pdf", "template"))
    /\ LET r == extract_text_from_pdf(uploaded_template_file)
       IN  IF r.ok
           THEN /\ template_text' = r.value
                /\ pc' = "read_contract"
                /\ UNCHANGED << raised, errors >>
           ELSE /\ pc' = "fault"
                /\ raised' = "extract_text_from_pdf"
                /\ errors' = Append(errors, "extract_text_from_pdf")
                /\ template_text' = template_text
    /\ UNCHANGED << uploaded_template_file, uploaded_contract_file,
                    contract_text, template_clauses, contract_clauses,
                    matches, extractor_input, template_clause_dict,
                    contract_clause_dict, deviations, entities, text,
                    summarizer_calls, contract_summary, page >>

\* Line 121.
ReadContract ==
    /\ pc = "read_contract"
    /\ calls' = Append(calls, Call("extract_text_from_pdf", "contract"))
    /\ LET r == extract_text_from_pdf(uploaded_contract_file)
       IN  IF r.ok
           THEN /\ contract_text' = r.value
                /\ pc' = "extract_template"
                /\ UNCHANGED << raised, errors >>
           ELSE /\ pc' = "fault"
                /\ raised' = "extract_text_from_pdf"
                /\ errors' = Append(errors, "extract_text_from_pdf")
                /\ contract_text' = contract_text
    /\ UNCHANGED << uploaded_template_file, uploaded_contract_file,
                    template_text, template_clauses, contract_clauses,
                    matches, extractor_input, template_clause_dict,
                    contract_clause_dict, deviations, entities, text,
                    summarizer_calls, contract_summary, page >>

\* Line 124.
ExtractTemplateClauses ==
    /\ pc = "extract_template"
    /\ LET arg == ExtractorArgument(template_text)
       IN  /\ extractor_input' = [extractor_input EXCEPT !.template = arg]
           /\ matches' = findall(arg)
           /\ template_clauses' = ClausesOf(arg, findall(arg))
    /\ calls' = Append(calls, Call("extract_clauses_and_titles", "template"))
    /\ pc' = "extract_contract"
    /\ UNCHANGED << errors, uploaded_template_file, uploaded_contract_file,
                    template_text, contract_text, contract_clauses,
                    template_clause_dict, contract_clause_dict, deviations,
                    entities, text, summarizer_calls, contract_summary,
                    raised, page >>

\* Line 125.
ExtractContractClauses ==
    /\ pc = "extract_contract"
    /\ LET arg == ExtractorArgument(contract_text)
       IN  /\ extractor_input' = [extractor_input EXCEPT !.contract = arg]
           /\ matches' = findall(arg)
           /\ contract_clauses' = ClausesOf(arg, findall(arg))
    /\ calls' = Append(calls, Call("extract_clauses_and_titles", "contract"))
    /\ pc' = "display_clauses"
    /\ UNCHANGED << errors, uploaded_template_file, uploaded_contract_file,
                    template_text, contract_text, template_clauses,
                    template_clause_dict, contract_clause_dict, deviations,
                    entities, text, summarizer_calls, contract_summary,
                    raised, page >>

\* f"**{clause}. {title}**" for each clause.
ClauseLines(clauses) ==
    [i \in 1..Len(clauses) |->
        <<42, 42>> \o clauses[i][1] \o <<46, 32>> \o clauses[i][2] \o <<42, 42>>]

\* f"**{clause}. {title}** - {deviation}" for each deviation.
DeviationLines(devs) ==
    [i \in 1..Len(devs) |->
        <<42, 42>> \o devs[i][1] \o <<46, 32>> \o devs[i][2] \o <<42, 42, 32, 45, 32>> \o devs[i][3]]

PageOfClauses(tc, cc) ==
    <<TemplateClausesHeader>> \o ClauseLines(tc)
    \o <<ContractClausesHeader>> \o ClauseLines(cc)

PageOfDeviations(devs) ==
    <<DeviationsHeader>>
    \o (IF devs /= <<>> THEN DeviationLines(devs)
        ELSE <<NoDeviationsMessage>>)

\* Lines 128-134.
DisplayClauses ==
    /\ pc = "display_clauses"
    /\ page' = page \o PageOfClauses(template_clauses, contract_clauses)
    /\ pc' = "compare"
    /\ UNCHANGED << errors, uploaded_template_file, uploaded_contract_file,
                    template_text, contract_text, template_clauses,
                    contract_clauses, matches, extractor_input,
                    template_clause_dict, contract_clause_dict, deviations,
                    entities, text, summarizer_calls, contract_summary,
                    calls, raised >>

\* Lines 137-143.
CompareClauses ==
    /\ pc = "compare"
    /\ template_clause_dict' = ClauseDict(template_clauses)
    /\ contract_clause_dict' = ClauseDict(contract_clauses)
    /\ deviations' = compare_clauses(template_clauses, contract_clauses)
    /\ calls' = Append(calls, Call("compare_clauses", "both"))
    /\ page' = page \o PageOfDeviations(deviations')
    /\ pc' = "recognize_entities"
    /\ UNCHANGED << errors, uploaded_template_file, uploaded_contract_file,
                    template_text, contract_text, template_clauses,
                    contract_clauses, matches, extractor_input, entities,
                    text, summarizer_calls, contract_summary, raised >>

\* Line 146: the NER service answers or raises.
RecognizeEntities ==
    /\ pc = "recognize_entities"
    /\ calls' = Append(calls, Call("ner_pipeline", "contract"))
    /\ \/ /\ \E ents \in EntityLists : entities' = ents
          /\ pc' = "summary"
          /\ UNCHANGED << raised, errors >>
       \/ /\ pc' = "fault"
          /\ raised' = "ner_pipeline"
          /\ errors' = Append(errors, "ner_pipeline")
          /\ entities' = entities
    /\ UNCHANGED << uploaded_template_file, uploaded_contract_file,
                    template_text, contract_text, template_clauses,
                    contract_clauses, matches, extractor_input,
                    template_clause_dict, contract_clause_dict, deviations,
                    text, summarizer_calls, contract_summary, page >>

\* Lines 149-151: the summary of the contract's text, with whatever the
\* summarizer answers if it is asked.
DetailedSummary ==
    /\ pc = "summary"
    /\ \E answer \in SummarizerAnswers :
       \E r \in {extract_detailed_summary(contract_text, entities, answer)} :
             /\ text' = r.text
             /\ summarizer_calls' = summarizer_calls + (IF r.called THEN 1 ELSE 0)
             /\ calls' = calls
                    \o << Call("extract_detailed_summary", "contract"),
                          Call("preprocess_text", "contract") >>
                    \o (IF r.called THEN << Call("summarizer", "contract") >>
                        ELSE <<>>)
             /\ errors' = errors \o r.errors
             /\ IF r.raises
                THEN /\ pc' = "fault"
                     /\ raised' = r.by
                     /\ contract_summary' = contract_summary
                     /\ page' = Append(page, SummaryHeader)
                ELSE /\ pc' = "show_entities"
                     /\ raised' = raised
                     /\ contract_summary' = r.value
                     /\ page' = page \o <<SummaryHeader, r.value>>
    /\ UNCHANGED << uploaded_template_file, uploaded_contract_file,
                    template_text, contract_text, template_clauses,
                    contract_clauses, matches, extractor_input,
                    template_clause_dict, contract_clause_dict, deviations,
                    entities >>

\* {entity["word"]: entity["entity_group"] for entity in entities}
UniqueEntities(ents) ==
    DictFill(<<>>, [i \in 1..Len(ents) |-> <<ents[i].word, ents[i].entity_group>>])

\* f"Entity: {entity}, Label: {label}" for each item.
EntityLines(d) ==
    [i \in 1..Len(d) |-> <<69, 110, 116, 105, 116, 121, 58, 32>> \o d[i][1] \o <<44, 32, 76, 97, 98, 101, 108, 58, 32>> \o d[i][2]]

\* Lines 154-159.
ShowEntities ==
    /\ pc = "show_entities"
    /\ page' = page \o <<EntitiesHeader>>
                    \o EntityLines(UniqueEntities(entities))
    /\ pc' = "done"
    /\ UNCHANGED << errors, uploaded_template_file, uploaded_contract_file,
                    template_text, contract_text, template_clauses,
                    contract_clauses, matches, extractor_input,
                    template_clause_dict, contract_clause_dict, deviations,
                    entities, text, summarizer_calls, contract_summary,
                    calls, raised >>

-----------------------------------------------------------------------------
(* States of the handler and the inputs the specifications draw *)

Stage(p) ==
    CASE p = "idle" -> 0
      [] p = "read_template" -> 1
      [] p = "read_contract" -> 2
      [] p = "extract_template" -> 3
      [] p = "extract_contract" -> 4
      [] p = "display_clauses" -> 5
      [] p = "compare" -> 6
      [] p = "recognize_entities" -> 7
      [] p = "summary" -> 8

\* The calls the handler has made when it stands at p.
CallsBefore(p) ==
    SubSeq(<< Call("extract_text_from_pdf", "template"),
              Call("extract_text_from_pdf", "contract"),
              Call("extract_clauses_and_titles", "template"),
              Call("extract_clauses_and_titles", "contract"),
              Call("compare_clauses", "both"),
              Call("ner_pipeline", "contract") >>,
            1, CASE Stage(p) <= 1 -> 0
                 [] Stage(p) \in 2..5 -> Stage(p) - 1
                 [] Stage(p) > 5 -> Stage(p) - 2)

\* The state in which the handler stands at p, having been given the files
\* tf and cf, both readable, and, if line 146 is behind it, the entities ents.
StateAt(p, tf, cf, ents) ==
    LET n == Stage(p)
    IN
    \E tt \in {IF n > 1 THEN extract_text_from_pdf(tf).value ELSE <<>>},
       ct \in {IF n > 2 THEN extract_text_from_pdf(cf).value ELSE <<>>} :
    \E tc \in {IF n > 3 THEN extract_clauses_and_titles(tt) ELSE <<>>},
       cc \in {IF n > 4 THEN extract_clauses_and_titles(ct) ELSE <<>>} :
    \E dv \in {IF n > 6 THEN compare_clauses(tc, cc) ELSE <<>>} :
        /\ pc = p
        /\ uploaded_template_file = tf
        /\ uploaded_contract_file = cf
        /\ template_text = tt
        /\ contract_text = ct
        /\ template_clauses = tc
        /\ contract_clauses = cc
        /\ matches = IF n > 4 THEN findall(ct)
                     ELSE IF n > 3 THEN findall(tt) ELSE <<>>
        /\ extractor_input = [template |-> IF n > 3 THEN tt ELSE <<>>,
                              contract |-> IF n > 4 THEN ct ELSE <<>>]
        /\ template_clause_dict = IF n > 6 THEN ClauseDict(tc) ELSE <<>>
        /\ contract_clause_dict = IF n > 6 THEN ClauseDict(cc) ELSE <<>>
        /\ deviations = dv
        /\ entities = IF n > 7 THEN ents ELSE <<>>
        /\ text = <<>>
        /\ summarizer_calls = 0
        /\ contract_summary = <<>>
        /\ calls = CallsBefore(p)
        /\ errors = <<>>
        /\ raised = ""
        /\ page = (IF n > 5 THEN PageOfClauses(tc, cc) ELSE <<>>)
                  \o (IF n > 6 THEN PageOfDeviations(dv) ELSE <<>>)

\* The UTF-8 bytes of the character c, each as the latin1 character a page
\* holds for it.
Utf8Bytes(c) ==
    IF c < 128 THEN <<c>>
    ELSE IF c < 2048 THEN <<192 + (c \div 64), 128 + (c % 64)>>
    ELSE IF c < 65536
    THEN <<224 + (c \div 4096), 128 + ((c \div 64) % 64), 128 + (c % 64)>>
    ELSE <<240 + (c \div 262144), 128 + ((c \div 4096) % 64),
           128 + ((c \div 64) % 64), 128 + (c % 64)>>

\* A page whose reading by extract_text_from_pdf gives the text t.
RECURSIVE PageFor(_)
PageFor(t) ==
    IF t = <<>> THEN <<>> ELSE Utf8Bytes(t[1]) \o PageFor(Tail(t))

\* A one-page PDF that reads as t.
PdfOf(t) == Pdf(<<PageFor(t)>>)

\* n times the letter x.
Pad(n) == [i \in 1..n |-> 120]

\* All concatenations of at most n members of S.
RECURSIVE ConcatsUpTo(_, _)
ConcatsUpTo(S, n) ==
    IF n = 0 THEN {<<>>}
    ELSE LET shorter == ConcatsUpTo(S, n - 1)
         IN  shorter \cup {a \o b : a \in shorter, b \in S}

\* Texts for the extractor: every short text over a small alphabet, and
\* texts of a few lines, each an identifier, a separator, a title and an end.
\* The alphabet: "1", ARABIC-INDIC DIGIT THREE, ".", " ", "\n", "\v", "A".
ExtractAlphabet == {49, 1635, 46, 32, 10, 11, 65}

ShortTexts == SeqsUpTo(ExtractAlphabet, MaxTextLen)

\* "1" and "2.1".
LineIds == { <<49>>, <<50, 46, 49>> }

\* ". ", ".\n" and "." with U+001F and " ".
LineSeparators == { <<46, 32>>, <<46, 10>>, <<46, 31, 32>> }

\* "Scope" and "Payment Terms".
LineTitles == { <<83, 99, 111, 112, 101>>, <<80, 97, 121, 109, 101, 110, 116, 32, 84, 101, 114, 109, 115>> }

\* "\n", and a NO-BREAK SPACE before it.
LineEnds == { <<10>>, <<160, 10>> }

Lines ==
    {i \o sp \o t \o e :
        i \in LineIds, sp \in LineSeparators, t \in LineTitles, e \in LineEnds}

LineTexts == ConcatsUpTo(Lines, MaxLines)

ExtractTexts == ShortTexts \cup LineTexts

\* Clause sequences for the comparator, and a document that holds them.
ClauseIds == { <<49>>, <<50, 46, 49>> }

ClauseTitles == { <<65>>, <<66>> }

ClauseSeqs == SeqsUpTo(ClauseIds \X ClauseTitles, MaxClauses)

RECURSIVE DocumentOf(_)
DocumentOf(clauses) ==
    IF clauses = <<>> THEN <<>>
    ELSE clauses[1][1] \o <<46, 32>> \o clauses[1][2] \o <<10>>
         \o DocumentOf(Tail(clauses))

\* Texts for the summary: short texts with whitespace in them, alone and
\* behind a run of letters that brings the length to around MinSummaryLen.
\* The alphabet: " ", "\n", "\v", NO-BREAK SPACE, "A".
WsAlphabet == {32, 10, 11, 160, 65}

WsTexts == SeqsUpTo(WsAlphabet, MaxWsLen)

PaddedTexts ==
    {Pad(n) \o w : n \in PadBase..(PadBase + PadSpan),
                   w \in SeqsUpTo(WsAlphabet, MaxTailLen)}

SummaryInputs == WsTexts \cup PaddedTexts

\* Files for the whole handler: pages that read as the texts
\*   "1. Scope\n2.1. Pay\n",  "1. A\n1. B\n",  "1.\nScope  \n",
\*   x...x "\n1. A"  and  x...x " \n\n9. A",
\* a PDF of the two pages "1. A\n" and "2.1. B", a page with the UTF-8 bytes
\* of U+00E9 ("1. caf<C3><A9>\n"), a page with an EN DASH, which latin1
\* drops ("1. A<U+2013>B\v\n"), a page with the lone byte of a latin1
\* U+00E9, which UTF-8 rejects ("caf<E9> 1. A\n"), a file that is no PDF,
\* and no file.
FlowTexts ==
    { <<49, 46, 32, 83, 99, 111, 112, 101, 10, 50, 46, 49, 46, 32, 80, 97, 121, 10>>,
      <<49, 46, 32, 65, 10, 49, 46, 32, 66, 10>>,
      <<49, 46, 10, 83, 99, 111, 112, 101, 32, 32, 10>>,
      Pad(PadBase) \o <<10, 49, 46, 32, 65>>,
      Pad(PadBase) \o <<32, 10, 10, 57, 46, 32, 65>> }

Page_Utf8 == <<49, 46, 32, 99, 97, 102, 195, 169, 10>>

Page_Dash == <<49, 46, 32, 65, 8211, 66, 11, 10>>

Page_Latin1 == <<99, 97, 102, 233, 32, 49, 46, 32, 65, 10>>

FlowFiles ==
    {Pdf(<<t>>) : t \in FlowTexts}
    \cup { Pdf(<< <<49, 46, 32, 65, 10>>, <<50, 46, 49, 46, 32, 66>> >>),
           Pdf(<<Page_Utf8>>), Pdf(<<Page_Dash>>), Pdf(<<Page_Latin1>>),
           CorruptFile, NoFile }

-----------------------------------------------------------------------------
(* Specifications *)

\* The whole handler, from the press of Submit.
Init ==
    \E tf \in FlowFiles, cf \in FlowFiles : StateAt("idle", tf, cf, <<>>)

Next ==
    \/ Submit
    \/ ReadTemplate
    \/ ReadContract
    \/ ExtractTemplateClauses
    \/ ExtractContractClauses
    \/ DisplayClauses
    \/ CompareClauses
    \/ RecognizeEntities
    \/ DetailedSummary
    \/ ShowEntities

Spec == Init /\ [][Next]_vars

\* The extractor on one document, the other being empty.
InitExtract ==
    \E t \in ExtractTexts :
        \/ StateAt("extract_template", PdfOf(t), Pdf(<<>>), <<>>)
        \/ StateAt("extract_contract", Pdf(<<>>), PdfOf(t), <<>>)

NextExtract == ExtractTemplateClauses \/ ExtractContractClauses

SpecExtract == InitExtract /\ [][NextExtract]_vars

\* The comparator on the clauses of two documents.
InitCompare ==
    \E tc \in ClauseSeqs, cc \in ClauseSeqs :
        StateAt("compare", PdfOf(DocumentOf(tc)), PdfOf(DocumentOf(cc)), <<>>)

NextCompare == CompareClauses

SpecCompare == InitCompare /\ [][NextCompare]_vars

\* The summary function on one contract text.
InitSummary ==
    \E t \in SummaryInputs, ents \in EntityLists :
        StateAt("summary", Pdf(<<>>), PdfOf(t), ents)

NextSummary == DetailedSummary

SpecSummary == InitSummary /\ [][NextSummary]_vars

-----------------------------------------------------------------------------
(* Vocabulary of the properties *)

Range(f) == {f[i] : i \in DOMAIN f}

IdsOf(clauses) == {clauses[i][1] : i \in 1..Len(clauses)}

FirstIndex(clauses, id) ==
    CHOOSE i \in 1..Len(clauses) :
        /\ clauses[i][1] = id
        /\ \A j \in 1..(i - 1) : clauses[j][1] /= id

LastIndex(clauses, id) ==
    CHOOSE i \in 1..Len(clauses) :
        /\ clauses[i][1] = id
        /\ \A j \in (i + 1)..Len(clauses) : clauses[j][1] /= id

LastTitle(clauses, id) == clauses[LastIndex(clauses, id)][2]

\* The clauses without the occurrences a later one of the same identifier follows.
LastOnly(clauses) ==
    LET keep == {i \in 1..Len(clauses) : i = LastIndex(clauses, clauses[i][1])}
        F[i \in 0..Len(clauses)] ==
            IF i = 0 THEN <<>>
            ELSE IF i \in keep THEN Append(F[i - 1], clauses[i]) ELSE F[i - 1]
    IN  F[Len(clauses)]

IsExtra(dev) == dev[3] = ExtraInContract

Compared == pc = "recognize_entities"

\* The extraction that has just run: its document, argument and result.
JustExtracted ==
    /\ calls /= <<>>
    /\ calls[Len(calls)][1] = "extract_clauses_and_titles"

ExtractedDoc == calls[Len(calls)][2]

ExtractedFrom ==
    IF ExtractedDoc = "template" THEN extractor_input.template
    ELSE extractor_input.contract

ExtractedClauses ==
    IF ExtractedDoc = "template" THEN template_clauses ELSE contract_clauses

\* x is digit groups joined by single periods.
IsId(x) ==
    /\ x /= <<>>
    /\ \A i \in 1..Len(x) : IsDigit(x[i]) \/ x[i] = Period
    /\ IsDigit(x[1]) /\ IsDigit(x[Len(x)])
    /\ \A i \in 1..(Len(x) - 1) : ~(x[i] = Period /\ x[i + 1] = Period)

\* Some substring of s that starts at p is an identifier, a period, one or
\* more whitespace characters and one character that is no newline.
HeadingAt(s, p) ==
    \E a \in (p + 1)..Len(s) :
        /\ s[a] = Period
        /\ IsId(SubSeq(s, p, a - 1))
        /\ \E b \in (a + 2)..Len(s) :
              /\ s[b] /= LF
              /\ \A k \in (a + 1)..(b - 1) : IsSpace(s[k])

\* t is g without its leading and trailing whitespace.
IsTrimOf(t, g) ==
    \E a \in 1..(Len(g) + 1) :
        /\ \A k \in 1..(a - 1) : IsSpace(g[k])
        /\ a <= Len(g) => ~IsSpace(g[a])
        /\ \E b \in 0..Len(g) :
              /\ \A k \in (b + 1)..Len(g) : IsSpace(g[k])
              /\ b >= 1 => ~IsSpace(g[b])
              /\ t = SubSeq(g, a, b)

\* "1. Scope\n2.1. Payment Terms\n"
ExampleText == <<49, 46, 32, 83, 99, 111, 112, 101, 10, 50, 46, 49, 46, 32, 80, 97, 121, 109, 101, 110, 116, 32, 84, 101, 114, 109, 115, 10>>

\* [("1", "Scope"), ("2.1", "Payment Terms")]
ExampleClauses == << <<<<49>>, <<83, 99, 111, 112, 101>>>>, <<<<50, 46, 49>>, <<80, 97, 121, 109, 101, 110, 116, 32, 84, 101, 114, 109, 115>>>> >>

Summarized == pc \in {"show_entities", "fault"}

NoAdjacentWhitespace(t) ==
    \A i \in 1..(Len(t) - 1) : ~(IsSpace(t[i]) /\ IsSpace(t[i + 1]))

\* The characters of t that are no whitespace, in order.
NonSpace(t) == SelectSeq(t, LAMBDA c : ~IsSpace(c))

\* The number of maximal runs of whitespace in t.
SpaceRuns(t) ==
    Cardinality({i \in 1..Len(t) :
                    IsSpace(t[i]) /\ (i = 1 \/ ~IsSpace(t[i - 1]))})

CallIndexes(fn) == {i \in 1..Len(calls) : calls[i][1] = fn}

RawText(doc) == IF doc = "template" THEN template_text ELSE contract_text

\* The clauses ("1", "A"), ("1", "B"), ("2.1", "A") and ("2.1", "B").
Clause_1A == <<<<49>>, <<65>>>>

Clause_1B == <<<<49>>, <<66>>>>

Clause_21A == <<<<50, 46, 49>>, <<65>>>>

Clause_21B == <<<<50, 46, 49>>, <<66>>>>

-----------------------------------------------------------------------------
(* Properties *)

\* C1: after compare_clauses(T, C), no identifier is reported twice, and the
\* deviations are exactly: "Missing in Contract" with the template's title
\* for each identifier of T that C lacks; "Different in Contract: <contract
\* title>" with the template's title for each identifier of both whose
\* looked-up titles differ; "Extra in Contract" with the contract's title
\* for each identifier of C that T lacks; nothing for equal titles.
C1_DeviationsExact ==
    Compared =>
        LET T == IdsOf(template_clauses)
            C == IdsOf(contract_clauses)
            tt(id) == DictGet(template_clause_dict, id)
            ct(id) == DictGet(contract_clause_dict, id)
        IN  /\ \A i, j \in 1..Len(deviations) :
                  i /= j => deviations[i][1] /= deviations[j][1]
            /\ Range(deviations) =
                  {<<id, tt(id), MissingInContract>> : id \in T \ C}
                  \cup {<<id, tt(id), DifferentInContract \o ct(id)>> :
                          id \in {x \in T \cap C : tt(x) /= ct(x)}}
                  \cup {<<id, ct(id), ExtraInContract>> : id \in C \ T}

C1_Witness ==
    /\ Compared
    /\ <<<<49>>, <<65>>, DifferentInContract \o <<66>>>> \in Range(deviations)
    /\ <<<<50, 46, 49>>, <<66>>, ExtraInContract>> \in Range(deviations)
    /\ Len(template_clauses) = 1

\* C2: in the list compare_clauses returns, no "Extra" deviation precedes a
\* "Missing" or "Different" one; the "Missing" and "Different" ones stand
\* in the order in which their identifiers first occur in the template
\* sequence, the "Extra" ones in the order in which theirs first occur in
\* the contract sequence.
C2_DeviationsOrdered ==
    Compared =>
        \A i, j \in 1..Len(deviations) :
            i < j =>
                LET a == deviations[i]
                    b == deviations[j]
                IN  /\ ~(IsExtra(a) /\ ~IsExtra(b))
                    /\ (~IsExtra(a) /\ ~IsExtra(b)) =>
                          FirstIndex(template_clauses, a[1])
                              < FirstIndex(template_clauses, b[1])
                    /\ (IsExtra(a) /\ IsExtra(b)) =>
                          FirstIndex(contract_clauses, a[1])
                              < FirstIndex(contract_clauses, b[1])

C2_Witness ==
    /\ Compared
    /\ template_clauses = << Clause_1A, Clause_21A, Clause_1B >>
    /\ contract_clauses = <<>>
    /\ deviations = << <<<<49>>, <<66>>, MissingInContract>>,
                       <<<<50, 46, 49>>, <<65>>, MissingInContract>> >>

\* C3: the lookups compare_clauses builds hold each identifier once, with
\* the title of its last occurrence; every deviation carries last titles
\* only, and dropping the earlier occurrences changes no deviation.
C3_LastWriteWins ==
    Compared =>
        /\ \A id \in IdsOf(template_clauses) :
              /\ Cardinality({i \in 1..Len(template_clause_dict) :
                                 template_clause_dict[i][1] = id}) = 1
              /\ DictGet(template_clause_dict, id)
                    = LastTitle(template_clauses, id)
        /\ \A id \in IdsOf(contract_clauses) :
              /\ Cardinality({i \in 1..Len(contract_clause_dict) :
                                 contract_clause_dict[i][1] = id}) = 1
              /\ DictGet(contract_clause_dict, id)
                    = LastTitle(contract_clauses, id)
        /\ \A i \in 1..Len(deviations) :
              deviations[i][2] =
                  IF IsExtra(deviations[i])
                  THEN LastTitle(contract_clauses, deviations[i][1])
                  ELSE LastTitle(template_clauses, deviations[i][1])
        /\ Range(deviations) =
              Range(compare_clauses(LastOnly(template_clauses),
                                    LastOnly(contract_clauses)))

C3_Witness ==
    /\ Compared
    /\ template_clauses = << Clause_1A, Clause_1B >>
    /\ template_clause_dict = << Clause_1B >>
    /\ contract_clauses = << Clause_1A >>
    /\ deviations = << <<<<49>>, <<66>>, DifferentInContract \o <<65>>>> >>

\* C4: every match behind a clause extract_clauses_and_titles returns lies
\* in one line: the identifier, a period, one or more characters none of
\* which is a line break, and the title, which holds no line break and
\* runs to the end of that line.
C4_HeadingOnOneLine ==
    JustExtracted =>
        \A i \in 1..Len(matches) :
            LET m == matches[i]
                s == ExtractedFrom
            IN  /\ s[m.id_end] = Period
                /\ m.title_start > m.id_end + 1
                /\ \A k \in (m.id_end + 1)..(m.title_start - 1) : s[k] /= LF
                /\ \A k \in m.title_start..(m.end - 1) : s[k] /= LF
                /\ m.end = Len(s) + 1 \/ s[m.end] = LF

\* C5: extract_clauses_and_titles returns one clause per match, in the
\* order of the matches, which follow one another without overlap from
\* left to right; each clause is the match's identifier and its trimmed
\* title; no heading starts outside the matches, so a text without a
\* heading gives the empty sequence; and the example text gives
\* [("1", "Scope"), ("2.1", "Payment Terms")].
C5_ClausesInMatchOrder ==
    JustExtracted =>
        LET s == ExtractedFrom
            cl == ExtractedClauses
        IN  /\ Len(cl) = Len(matches)
            /\ \A i \in 1..Len(matches) :
                  LET m == matches[i]
                  IN  /\ 1 <= m.start /\ m.start < m.id_end
                      /\ m.id_end + 1 < m.title_start
                      /\ m.title_start < m.end /\ m.end <= Len(s) + 1
                      /\ i < Len(matches) => m.end <= matches[i + 1].start
                      /\ IsId(SubSeq(s, m.start, m.id_end - 1))
                      /\ s[m.id_end] = Period
                      /\ \A k \in (m.id_end + 1)..(m.title_start - 1) :
                            IsSpace(s[k])
                      /\ cl[i][1] = SubSeq(s, m.start, m.id_end - 1)
                      /\ IsTrimOf(cl[i][2], SubSeq(s, m.title_start, m.end - 1))
            /\ \A p \in 1..Len(s) :
                  HeadingAt(s, p) =>
                      \E i \in 1..Len(matches) :
                          matches[i].start <= p /\ p < matches[i].end
            /\ s = ExampleText => cl = ExampleClauses

C5_Witness ==
    /\ JustExtracted
    /\ ExtractedFrom = ExampleText
    /\ ExtractedClauses = ExampleClauses
    /\ Len(matches) = 2

\* C6, as stated: every text the extractor is given has gone through
\* preprocess_text first.
C6_NormalizerBeforeExtractor ==
    \A i \in CallIndexes("extract_clauses_and_titles") :
        /\ \E j \in 1..(i - 1) : calls[j] = Call("preprocess_text", calls[i][2])
        /\ extractor_input[calls[i][2]] = preprocess_text(RawText(calls[i][2]))

\* C6, amended: the extractor is given each document's raw text, with no
\* call of preprocess_text before it; it runs at most once per document and
\* the comparator at most once, after both extractions and on their
\* results; preprocess_text runs only on the contract, after the comparison;
\* a submission that has read both PDFs and gone past the comparison has
\* run the extractor exactly once per document and the comparator once.
C6_RawTextToExtractor ==
    /\ \A i \in CallIndexes("extract_clauses_and_titles") :
          /\ \A j \in 1..(i - 1) : calls[j][1] /= "preprocess_text"
          /\ extractor_input[calls[i][2]] = RawText(calls[i][2])
          /\ \A j \in CallIndexes("extract_clauses_and_titles") :
                calls[j][2] = calls[i][2] => j = i
    /\ Cardinality(CallIndexes("compare_clauses")) <= 1
    /\ \A i \in CallIndexes("compare_clauses") :
          /\ \E j \in 1..(i - 1) :
                calls[j] = Call("extract_clauses_and_titles", "template")
          /\ \E j \in 1..(i - 1) :
                calls[j] = Call("extract_clauses_and_titles", "contract")
          /\ template_clause_dict = ClauseDict(template_clauses)
          /\ contract_clause_dict = ClauseDict(contract_clauses)
    /\ \A i \in CallIndexes("preprocess_text") :
          /\ calls[i][2] = "contract"
          /\ \E j \in 1..(i - 1) : calls[j][1] = "compare_clauses"
    /\ (\/ pc \in {"recognize_entities", "summary", "show_entities"}
        \/ pc = "done" /\ calls /= <<>>
        \/ pc = "fault" /\ raised /= "extract_text_from_pdf") =>
          /\ Cardinality(CallIndexes("extract_clauses_and_titles")) = 2
          /\ Cardinality(CallIndexes("compare_clauses")) = 1

C6_Witness ==
    /\ pc = "done"
    /\ Cardinality(CallIndexes("extract_clauses_and_titles")) = 2
    /\ Cardinality(CallIndexes("preprocess_text")) = 1
    /\ preprocess_text(contract_text) /= contract_text
    /\ contract_clauses /= <<>>
    /\ deviations /= <<>>

\* C7: once extract_detailed_summary has run, a text of fewer than 50
\* characters has given the fixed message without a call of the
\* summarizer, and the summarizer has been called only if the normalized
\* text has at least 50 characters.
C7_ShortTextNotSummarized ==
    Summarized =>
        /\ Len(contract_text) < MinSummaryLen =>
              /\ contract_summary = TooShortMessage
              /\ summarizer_calls = 0
              /\ CallIndexes("summarizer") = {}
              /\ pc = "show_entities"
        /\ summarizer_calls > 0 => Len(text) >= MinSummaryLen
        /\ summarizer_calls = Cardinality(CallIndexes("summarizer"))

C7_Witness ==
    /\ Summarized
    /\ Len(contract_text) = MinSummaryLen - 1
    /\ Len(text) = MinSummaryLen - 1
    /\ contract_summary = TooShortMessage
    /\ summarizer_calls = 0

\* C8: an error of the summarizer never ends the handler: the summary is
\* then the message "Summary generation failed: ..." and the handler goes
\* on to the detected entities, which a finished submission has rendered;
\* an error of any other collaborator ends the handler.
C8_SummarizerErrorRecovered ==
    /\ \A i \in 1..Len(errors) :
          IF errors[i] = "summarizer"
          THEN /\ pc \in {"show_entities", "done"}
               /\ raised = ""
               /\ contract_summary \in
                     {SummaryFailedHead \o e : e \in SummarizerErrors}
               /\ pc = "show_entities" => ENABLED ShowEntities
               /\ pc = "done" => EntitiesHeader \in Range(page)
          ELSE pc = "fault" /\ raised = errors[i]
    /\ pc = "fault" <=> raised /= ""
    /\ raised /= "" => raised \in Range(errors)

\* "Entity: Acme, Label: ORG" is the last line rendered.
C8_Witness ==
    /\ pc = "done"
    /\ errors = <<"summarizer">>
    /\ contract_summary = SummaryFailedHead \o <<105, 110, 100, 101, 120, 32, 111, 117, 116, 32, 111, 102, 32, 114, 97, 110, 103, 101>>
    /\ page[Len(page)] = <<69, 110, 116, 105, 116, 121, 58, 32, 65, 99, 109, 101, 44, 32, 76, 97, 98, 101, 108, 58, 32, 79, 82, 71>>

\* C9: the text preprocess_text returns has no two adjacent whitespace
\* characters and is left as it is by a second application; it keeps the
\* other characters in order and has one space for each maximal run of
\* whitespace of the text it was given.
C9_WhitespaceCollapsed ==
    Summarized =>
        /\ NoAdjacentWhitespace(text)
        /\ preprocess_text(text) = text
        /\ \A i \in 1..Len(text) : IsSpace(text[i]) => text[i] = Space
        /\ NonSpace(text) = NonSpace(contract_text)
        /\ Len(text) = Len(NonSpace(contract_text)) + SpaceRuns(contract_text)

\* "A\v" and a NO-BREAK SPACE have become "A ".
C9_Witness ==
    /\ Summarized
    /\ contract_text = <<65, 11, 160>>
    /\ text = <<65, 32>>

\* C10: compare_clauses(A, B) reports an identifier "Missing in Contract"
\* exactly when compare_clauses(B, A) reports it "Extra in Contract" with
\* the same title, and the other way round; it reports "Different in
\* Contract" exactly when compare_clauses(B, A) does with the two titles
\* exchanged; and compare_clauses(A, A) is empty.
C10_SwapMirrors ==
    Compared =>
        LET D == Range(deviations)
            R == Range(compare_clauses(contract_clauses, template_clauses))
        IN  /\ \A id \in ClauseIds, t \in ClauseTitles :
                  /\ <<id, t, MissingInContract>> \in D
                        <=> <<id, t, ExtraInContract>> \in R
                  /\ <<id, t, ExtraInContract>> \in D
                        <=> <<id, t, MissingInContract>> \in R
                  /\ \A u \in ClauseTitles :
                        <<id, t, DifferentInContract \o u>> \in D
                           <=> <<id, u, DifferentInContract \o t>> \in R
            /\ Cardinality(D) = Cardinality(R)
            /\ template_clauses = contract_clauses => deviations = <<>>

C10_Witness ==
    /\ Compared
    /\ template_clauses = << Clause_1A, Clause_1B, Clause_21A >>
    /\ contract_clauses = << Clause_1A >>
    /\ deviations = << <<<<49>>, <<66>>, DifferentInContract \o <<65>>>>,
                       <<<<50, 46, 49>>, <<65>>, MissingInContract>> >>

=============================================================================
